---- MODULE Spec2Model ----
(***************************************************************************)
(* memctx: text chunking (cmd.go), the conversation store and its cosine   *)
(* search (store.go), and the upload / reindex / prime commands (cmd.go).  *)
(*                                                                         *)
(* A text is a sequence of one-byte characters, each written as a string   *)
(* of length one; "xFF" stands for a byte that is not valid UTF-8 and      *)
(* "xEF","xBF","xBD" for the three bytes of U+FFFD.                        *)
(***************************************************************************)
EXTENDS Integers, Sequences, FiniteSets, TLC

VARIABLES
    text,           \* chunker harness: the input text
    targetSize,     \* chunker harness: the target size
    out,            \* chunker harness: "none" or the chunks returned
    conversations,  \* store: id -> row of table conversations
    chunks,         \* store: chunk id -> chunk row
    chunkEmb,       \* store: chunk id -> embedding vector
    cmd,            \* the command being run, or the outcome of the last one
    query,          \* search harness: the query vector of the last search
    results         \* search harness: the results of the last search

vars == <<text, targetSize, out, conversations, chunks, chunkEmb, cmd, query, results>>

chunkVars == <<text, targetSize, out>>
storeVars == <<conversations, chunks, chunkEmb>>
searchVars == <<query, results>>

----------------------------------------------------------------------------
(* Bounds *)

MaxLen == 6        \* longest text given to the chunker harness
MaxTarget == 2     \* largest targetSize given to the chunker harness

----------------------------------------------------------------------------
(* Helpers on sequences and sets of integers *)

Min(S) == CHOOSE x \in S : \A y \in S : x <= y
Max(S) == CHOOSE x \in S : \A y \in S : x >= y

RECURSIVE Flatten(_)
Flatten(ss) == IF ss = <<>> THEN <<>> ELSE Head(ss) \o Flatten(Tail(ss))

Range(s) == {s[i] : i \in 1..Len(s)}

----------------------------------------------------------------------------
(* strings: TrimSpace, Split, and the rune loop of splitSentences *)

\* unicode.IsSpace, restricted to the characters of the model
WhiteSpace == {" ", "\n", "\t"}

NL == "\n"
BadByte == "xFF"
RuneError == <<"xEF", "xBF", "xBD">>

\* the first position from i on, and the last position up to i, that holds no
\* white space (0 when there is none)
RECURSIVE FirstKept(_, _)
FirstKept(s, i) ==
    IF i > Len(s) THEN 0 ELSE IF s[i] \notin WhiteSpace THEN i ELSE FirstKept(s, i + 1)

RECURSIVE LastKept(_, _)
LastKept(s, i) ==
    IF i < 1 THEN 0 ELSE IF s[i] \notin WhiteSpace THEN i ELSE LastKept(s, i - 1)

TrimSpace(s) ==
    LET first == FirstKept(s, 1)
    IN  IF first = 0 THEN <<>> ELSE SubSeq(s, first, LastKept(s, Len(s)))

\* strings.Split(s, "\n\n"): cut at the leftmost separator, then go on after it
RECURSIVE SplitParagraphs(_)
SplitParagraphs(s) ==
    LET hits == {i \in 1..(Len(s) - 1) : s[i] = NL /\ s[i + 1] = NL}
    IN  IF hits = {} THEN <<s>>
        ELSE LET i == Min(hits)
             IN  <<SubSeq(s, 1, i - 1)>> \o SplitParagraphs(SubSeq(s, i + 2, Len(s)))

\* `for _, r := range text { current.WriteRune(r) }`: a byte that is not valid
\* UTF-8 is read as U+FFFD and written back as its three bytes
RECURSIVE WriteRunes(_)
WriteRunes(s) ==
    IF s = <<>> THEN <<>>
    ELSE (IF Head(s) = BadByte THEN RuneError ELSE <<Head(s)>>) \o WriteRunes(Tail(s))

\* positions of text at which splitSentences ends a sentence
SentenceEnds(s) ==
    {i \in 1..Len(s) : /\ s[i] \in {".", "!", "?"}
                       /\ (i + 1 > Len(s) \/ s[i + 1] = " " \/ s[i + 1] = NL)}

RECURSIVE splitSentences(_)
splitSentences(s) ==
    IF s = <<>> THEN <<>>
    ELSE LET ends == SentenceEnds(s)
         IN  IF ends = {} THEN <<TrimSpace(WriteRunes(s))>>
             ELSE LET e == Min(ends)
                  IN  <<TrimSpace(WriteRunes(SubSeq(s, 1, e)))>>
                        \o splitSentences(SubSeq(s, e + 1, Len(s)))

----------------------------------------------------------------------------
(* chunkText: acc is [chunks, current], the two locals of the function *)

Flush(acc) == [chunks |-> Append(acc.chunks, TrimSpace(acc.current)), current |-> <<>>]

\* a mutant: the buffer is flushed only when it would pass twice the target
FlushIfOverDouble(acc, piece, size) ==
    IF Len(acc.current) > 0 /\ Len(acc.current) + Len(piece) > size * 2 THEN Flush(acc) ELSE acc

\* `if current.Len() > 0 && current.Len()+len(piece) > targetSize { flush }`
FlushIfOver(acc, piece, size) ==
    IF Len(acc.current) > 0 /\ Len(acc.current) + Len(piece) > size THEN Flush(acc) ELSE acc

\* write sep if the buffer holds something, then write piece
WriteSep(acc, sep, piece) ==
    [acc EXCEPT !.current = (IF Len(@) > 0 THEN @ \o sep ELSE @) \o piece]

RECURSIVE AddSentences(_, _, _)
AddSentences(acc, sents, size) ==
    IF sents = <<>> THEN acc
    ELSE AddSentences(WriteSep(FlushIfOver(acc, Head(sents), size), <<" ">>, Head(sents)),
                      Tail(sents), size)

AddParagraph(acc, rawPara, size) ==
    LET para == TrimSpace(rawPara)
    IN  IF para = <<>> THEN acc
        ELSE LET a1 == FlushIfOver(acc, para, size)
             IN  IF Len(para) > size * 2
                 THEN AddSentences(a1, splitSentences(para), size)
                 ELSE WriteSep(a1, <<NL, NL>>, para)

RECURSIVE AddParagraphs(_, _, _)
AddParagraphs(acc, paras, size) ==
    IF paras = <<>> THEN acc
    ELSE AddParagraphs(AddParagraph(acc, Head(paras), size), Tail(paras), size)

\* a mutant: the buffer left after the last paragraph is not flushed
chunkTextNoFinalFlush(t, size) ==
    AddParagraphs([chunks |-> <<>>, current |-> <<>>], SplitParagraphs(t), size).chunks

chunkText(t, size) ==
    LET acc == AddParagraphs([chunks |-> <<>>, current |-> <<>>], SplitParagraphs(t), size)
    IN  IF Len(acc.current) > 0 THEN Flush(acc).chunks ELSE acc.chunks

----------------------------------------------------------------------------
(* store.go: cosineDistance.  A distance is kept in hundredths, One being   *)
(* the float 1.0; the vectors of the model have whole-number norms and      *)
(* similarities that are whole hundredths, so the arithmetic is exact.      *)

One == 100

RECURSIVE Dot(_, _)
Dot(a, b) == IF a = <<>> THEN 0 ELSE Head(a) * Head(b) + Dot(Tail(a), Tail(b))

\* math.Sqrt on the perfect squares the model's vectors give
Sqrt(n) == CHOOSE r \in 0..n : r * r = n

\* a mutant: the length check forgotten, a missing component read as 0
cosineDistanceNoLengthCheck(a, b) ==
    LET n == IF Len(a) < Len(b) THEN Len(a) ELSE Len(b)
        x == SubSeq(a, 1, n)
        y == SubSeq(b, 1, n)
    IN  IF Dot(a, a) = 0 \/ Dot(b, b) = 0 THEN One
        ELSE One - ((One * Dot(x, y)) \div (Sqrt(Dot(a, a)) * Sqrt(Dot(b, b))))

cosineDistance(a, b) ==
    IF Len(a) # Len(b) THEN One
    ELSE LET dot == Dot(a, b)
             normA == Dot(a, a)
             normB == Dot(b, b)
         IN  IF normA = 0 \/ normB = 0 THEN One
             ELSE One - ((One * dot) \div (Sqrt(normA) * Sqrt(normB)))

----------------------------------------------------------------------------
(* store.go: table conversations (id, content, embedding, created_at)       *)

NULL == "NULL"

\* json.Marshal of a []float32 and json.Unmarshal of the stored text: the text
\* is kept as the pair <<"json", v>>; a nil slice is written as null and read
\* back as the empty vector, which <<>> stands for
Marshal(v) == <<"json", v>>
Unmarshal(t) == t[2]

\* a mutant: the plain INSERT of the earlier Save, which fails on an id that
\* is already there
SaveInsertOnly(table, c) ==
    IF c.ID \in DOMAIN table THEN [err |-> TRUE, table |-> table]
    ELSE [err |-> FALSE,
          table |-> [id \in DOMAIN table \cup {c.ID} |->
                        IF id = c.ID
                        THEN [content |-> c.Content, embedding |-> NULL,
                              created_at |-> c.CreatedAt]
                        ELSE table[id]]]

\* INSERT OR REPLACE INTO conversations (id, content, created_at): the row of
\* that id is replaced, and the column the statement does not name is NULL.
\* The result is the error of the statement and the table after it.
Save(table, c) ==
    [err |-> FALSE,
     table |-> [id \in DOMAIN table \cup {c.ID} |->
                   IF id = c.ID
                   THEN [content |-> c.Content, embedding |-> NULL,
                         created_at |-> c.CreatedAt]
                   ELSE table[id]]]

\* UPDATE conversations SET embedding = ? WHERE id = ?
SaveEmbedding(table, id, embedding) ==
    [i \in DOMAIN table |-> IF i = id THEN [table[i] EXCEPT !.embedding = Marshal(embedding)]
                            ELSE table[i]]

\* SELECT id, embedding FROM conversations WHERE embedding IS NOT NULL, in some
\* order of the rows: the sequences the scan of Search may build
RECURSIVE Scans(_, _)
Scans(ids, dist) ==
    IF ids = {} THEN {<<>>}
    ELSE UNION {{<<[ID |-> id, Distance |-> dist[id]]>> \o rest :
                    rest \in Scans(ids \ {id}, dist)} : id \in ids}

\* `if results[j].Distance < results[i].Distance { swap }`
SwapIfLess(r, i, j) ==
    IF r[j].Distance < r[i].Distance THEN [r EXCEPT ![i] = r[j], ![j] = r[i]] ELSE r

RECURSIVE SortInner(_, _, _)
SortInner(r, i, j) == IF j > Len(r) THEN r ELSE SortInner(SwapIfLess(r, i, j), i, j + 1)

RECURSIVE SortOuter(_, _)
SortOuter(r, i) == IF i > Len(r) THEN r ELSE SortOuter(SortInner(r, i, i + 1), i + 1)

\* the two nested loops of Search
SortByDistance(r) == SortOuter(r, 1)

\* `if len(results) > limit { results = results[:limit] }`
Truncate(r, limit) == IF Len(r) > limit THEN SubSeq(r, 1, limit) ELSE r

Embedded(table) == {id \in DOMAIN table : table[id].embedding # NULL}

\* a mutant: the scan is cut to the limit before it is sorted
SearchTruncateFirst(table, q, limit) ==
    LET dist == [id \in Embedded(table) |-> cosineDistance(q, Unmarshal(table[id].embedding))]
    IN  {SortByDistance(Truncate(scan, limit)) : scan \in Scans(Embedded(table), dist)}

\* Store.Search(query, limit): the set of results it may return (one for each
\* order in which the rows may be scanned)
Search(table, q, limit) ==
    LET dist == [id \in Embedded(table) |-> cosineDistance(q, Unmarshal(table[id].embedding))]
    IN  {Truncate(SortByDistance(scan), limit) : scan \in Scans(Embedded(table), dist)}

\* Store.Get(id): the row, or an error when there is none
Get(table, id) ==
    IF id \in DOMAIN table THEN [err |-> FALSE, ID |-> id, Content |-> table[id].content]
    ELSE [err |-> TRUE, ID |-> id, Content |-> <<>>]

----------------------------------------------------------------------------
(* The search with a distance threshold that cmd.go calls as                *)
(* store.Search(q, limit, threshold): ascending by distance, truncated to   *)
(* limit, no result above the threshold.  A brute-force store filters the   *)
(* whole ranking and then truncates; an indexed store asks its index for    *)
(* limit rows and then filters.  Either is allowed.                         *)

\* a mutant: the comparison of the filter turned round
WithinReversed(r, threshold) == SelectSeq(r, LAMBDA x : x.Distance >= threshold)

Within(r, threshold) == SelectSeq(r, LAMBDA x : x.Distance <= threshold)

SearchThreshold(table, q, limit, threshold) ==
    {Truncate(Within(r, threshold), limit) :
        r \in Search(table, q, Cardinality(Embedded(table)))}
    \cup {Within(r, threshold) : r \in Search(table, q, limit)}

----------------------------------------------------------------------------
(* The store on its own: Save, SaveEmbedding and the two searches, called   *)
(* with any arguments                                                       *)

MaxRows == 3       \* ids 1..MaxRows; limits 0..MaxRows

RowIds == 1..MaxRows
Limits == 0..MaxRows

UnitX == <<1, 0, 0, 0>>
Near == <<9, 3, 3, 1>>       \* cosine similarity 0.9 to UnitX
Far == <<3, 9, 3, 1>>        \* cosine similarity 0.3 to UnitX
Opposite == <<-1, 0, 0, 0>>  \* cosine similarity -1 to UnitX
Zero4 == <<0, 0, 0, 0>>
Short2 == <<1, 0>>           \* of another dimension
Vectors == {Zero4, Near, Far, Opposite, Short2}
Queries == {<<>>, Zero4, UnitX}
Thresholds == {45, One}

NoTable == [id \in {} |-> NULL]
Idle == [op |-> "idle", status |-> "done"]
NoResults == [call |-> "none"]

StoreInit ==
    /\ conversations = NoTable
    /\ query = <<>>
    /\ results = NoResults
    /\ chunks = NoTable /\ chunkEmb = NoTable
    /\ cmd = Idle
    /\ text = <<>> /\ targetSize = 1 /\ out = "none"

StoreSave ==
    /\ results.call = "none"
    /\ \E id \in RowIds :
          LET r == Save(conversations, [ID |-> id, Content |-> <<"a">>, CreatedAt |-> 0])
          IN  conversations' = r.table
    /\ UNCHANGED <<query, results, chunks, chunkEmb, cmd, chunkVars>>

StoreSaveEmbedding ==
    /\ results.call = "none"
    /\ \E id \in RowIds, v \in Vectors :
          conversations' = SaveEmbedding(conversations, id, v)
    /\ UNCHANGED <<query, results, chunks, chunkEmb, cmd, chunkVars>>

StoreSearch ==
    /\ results.call = "none"
    /\ \E q \in Queries, limit \in Limits :
          \E rows \in Search(conversations, q, limit) :
              /\ query' = q
              /\ results' = [call |-> "Search", limit |-> limit, rows |-> rows]
    /\ UNCHANGED <<conversations, chunks, chunkEmb, cmd, chunkVars>>

StoreSearchThreshold ==
    /\ results.call = "none"
    /\ \E q \in Queries, limit \in Limits, threshold \in Thresholds :
          \E rows \in SearchThreshold(conversations, q, limit, threshold) :
              /\ query' = q
              /\ results' = [call |-> "SearchThreshold", limit |-> limit,
                             threshold |-> threshold, rows |-> rows]
    /\ UNCHANGED <<conversations, chunks, chunkEmb, cmd, chunkVars>>

\* the caller is done with the results
StoreReturn ==
    /\ results.call # "none"
    /\ results' = NoResults
    /\ UNCHANGED <<conversations, query, chunks, chunkEmb, cmd, chunkVars>>

StoreNext ==
    \/ StoreSave
    \/ StoreSaveEmbedding
    \/ StoreSearch
    \/ StoreSearchThreshold
    \/ StoreReturn

StoreSpec == StoreInit /\ [][StoreNext]_vars

----------------------------------------------------------------------------
(* Claims about the store on its own (StoreSpec)                            *)

RowDistance(id) == cosineDistance(query, Unmarshal(conversations[id].embedding))

NonDecreasing(r) == \A i \in 1..(Len(r) - 1) : r[i].Distance <= r[i + 1].Distance

\* every result is a stored row with an embedding, once, with its distance
Faithful(r) ==
    /\ \A i \in 1..Len(r) : /\ r[i].ID \in Embedded(conversations)
                            /\ r[i].Distance = RowDistance(r[i].ID)
    /\ \A i, j \in 1..Len(r) : r[i].ID = r[j].ID => i = j

LeftOut(r) == Embedded(conversations) \ {r[i].ID : i \in 1..Len(r)}

IsZero(v) == \A i \in 1..Len(v) : v[i] = 0
Degenerate(a, b) == Len(a) # Len(b) \/ IsZero(a) \/ IsZero(b)

\* C2: no result of the search with a threshold has a distance above the
\* threshold it was given, whatever the rows, the query, the limit and the
\* threshold.
C2_WithinThreshold ==
    results.call = "SearchThreshold" =>
        /\ Faithful(results.rows)
        /\ \A i \in 1..Len(results.rows) : results.rows[i].Distance <= results.threshold

\* the example of the claim: rows at similarity 0.9 and 0.3, threshold 0.45,
\* and only the 0.9 row comes back
C2_Witness ==
    /\ results.call = "SearchThreshold"
    /\ results.threshold = 45
    /\ results.limit >= 2
    /\ query = UnitX
    /\ \E a, b \in Embedded(conversations) :
          /\ Embedded(conversations) = {a, b}
          /\ Unmarshal(conversations[a].embedding) = Near
          /\ Unmarshal(conversations[b].embedding) = Far
          /\ results.rows = <<[ID |-> a, Distance |-> 10]>>

\* C3: Search returns at most limit results (as many as there are rows, up to
\* limit), in non-decreasing distance, each a stored row with its distance, and
\* no row left out is strictly nearer than a row returned.
C3_SearchNearest ==
    results.call = "Search" =>
        LET r == results.rows
        IN  /\ Len(r) <= results.limit
            /\ Len(r) = Min({results.limit, Cardinality(Embedded(conversations))})
            /\ NonDecreasing(r)
            /\ Faithful(r)
            /\ \A id \in LeftOut(r) : \A i \in 1..Len(r) : ~(RowDistance(id) < r[i].Distance)

\* a search that had to leave out a strictly farther row, and returned two
\* rows of different distances
C3_Witness ==
    /\ results.call = "Search"
    /\ Len(results.rows) = results.limit
    /\ Len(results.rows) >= 2
    /\ results.rows[1].Distance < results.rows[2].Distance
    /\ \E id \in LeftOut(results.rows) :
          RowDistance(id) > results.rows[Len(results.rows)].Distance

\* C9: cosineDistance is exactly 1.0 when the vectors differ in length or one
\* of them is all-zero (the empty vector included), in either argument order;
\* Search returns for every query, and a row whose vector is degenerate against
\* the query is in the results with distance 1.0 unless the limit cut it off
\* behind limit rows that are no farther.
C9_DegenerateIsOne ==
    /\ \A id \in Embedded(conversations), q \in Queries :
          LET v == Unmarshal(conversations[id].embedding)
          IN  Degenerate(q, v) => cosineDistance(q, v) = One /\ cosineDistance(v, q) = One
    /\ \A q \in Queries : Search(conversations, q, MaxRows) # {}
    /\ results.call = "Search" =>
          \A id \in Embedded(conversations) :
              Degenerate(query, Unmarshal(conversations[id].embedding)) =>
                  \/ \E i \in 1..Len(results.rows) :
                        results.rows[i] = [ID |-> id, Distance |-> One]
                  \/ /\ Len(results.rows) = results.limit
                     /\ \A i \in 1..Len(results.rows) : results.rows[i].Distance <= One

\* a search whose results hold a zero vector's row and a row of another
\* dimension, both at 1.0, between a nearer and a farther row
C9_Witness ==
    /\ results.call = "Search"
    /\ query = UnitX
    /\ \E i, j \in 1..Len(results.rows) :
          /\ Unmarshal(conversations[results.rows[i].ID].embedding) = Zero4
          /\ Unmarshal(conversations[results.rows[j].ID].embedding) = Short2
          /\ results.rows[i].Distance = One
          /\ results.rows[j].Distance = One
    /\ results.rows[1].Distance < One

----------------------------------------------------------------------------
(* The chunker on its own: chunkText called on every short text             *)

Alphabet == {"a", ".", " ", NL, BadByte}

RECURSIVE Texts(_)
Texts(n) == IF n = 0 THEN {<<>>}
            ELSE LET shorter == Texts(n - 1)
                 IN  shorter \cup {Append(t, c) : t \in {u \in shorter : Len(u) = n - 1},
                                                  c \in Alphabet}

ChunkInit ==
    /\ text \in Texts(MaxLen)
    /\ targetSize \in 1..MaxTarget
    /\ out = "none"
    /\ conversations = NoTable /\ chunks = NoTable /\ chunkEmb = NoTable
    /\ cmd = Idle
    /\ query = <<>> /\ results = NoResults

ChunkCall ==
    /\ out = "none"
    /\ out' = chunkText(text, targetSize)
    /\ UNCHANGED <<text, targetSize, storeVars, cmd, searchVars>>

ChunkNext == ChunkCall

ChunkSpec == ChunkInit /\ [][ChunkNext]_vars

NonSpace(s) == SelectSeq(s, LAMBDA c : c \notin WhiteSpace)
ValidUTF8(s) == BadByte \notin Range(s)

\* the paragraphs chunkText keeps whole and the sentences it cuts the longer
\* ones into
Pieces(t, size) ==
    LET paras == {TrimSpace(p) : p \in Range(SplitParagraphs(t))} \ {<<>>}
    IN  {p \in paras : Len(p) <= size * 2}
        \cup UNION {Range(splitSentences(p)) : p \in {x \in paras : Len(x) > size * 2}}

\* C1 as claimed: every non-empty text gets at least one chunk, and the chunks
\* read in order hold the non-whitespace characters of the text.
C1_Original ==
    (out # "none" /\ text # <<>>) =>
        /\ out # <<>>
        /\ NonSpace(Flatten(out)) = NonSpace(text)

\* C1 amended: a valid UTF-8 text with a non-whitespace character gets at least
\* one chunk, every chunk is non-empty, and the chunks read in order hold
\* the non-whitespace characters of the text, once each, in order; a text of
\* whitespace only gets no chunk.
C1_Coverage ==
    out # "none" =>
        /\ (ValidUTF8(text) /\ NonSpace(text) # <<>>) =>
              /\ out # <<>>
              /\ NonSpace(Flatten(out)) = NonSpace(text)
        /\ NonSpace(text) = <<>> => out = <<>>
        /\ \A i \in 1..Len(out) : out[i] # <<>>

\* a paragraph cut into sentences that end up in different chunks
C1_Witness ==
    /\ out # "none"
    /\ ValidUTF8(text)
    /\ Len(out) >= 2
    /\ Len(text) > targetSize * 2
    /\ SentenceEnds(text) # {}
    /\ NonSpace(text) # text

\* C8 as claimed: no chunk is longer than targetSize.
C8_Original ==
    out # "none" => \A i \in 1..Len(out) : Len(out[i]) <= targetSize

\* C8 amended: a chunk that joins two pieces or more is at most targetSize + 2
\* long (the separator); a longer chunk is one whole paragraph of at most
\* 2 * targetSize characters, or one sentence of a longer paragraph.
C8_Bound ==
    out # "none" =>
        \A i \in 1..Len(out) :
            \/ Len(out[i]) <= targetSize + 2
            \/ out[i] \in Pieces(text, targetSize)

\* two chunks or more, one of them a single sentence longer than
\* targetSize + 2
C8_Witness ==
    /\ out # "none"
    /\ ValidUTF8(text)
    /\ Len(out) >= 2
    /\ \E i \in 1..Len(out) :
          /\ Len(out[i]) > targetSize + 2
          /\ out[i] \in Pieces(text, targetSize)

----------------------------------------------------------------------------
(* The chunk tables that cmd.go writes through store.SaveChunk and          *)
(* store.SaveChunkEmbedding and reads through store.HasChunks and           *)
(* store.SearchChunks: chunk rows and chunk embeddings, each keyed by the   *)
(* chunk id.                                                                *)

\* saveChunk(chunk): upsert by id
SaveChunk(table, chunk) ==
    [id \in DOMAIN table \cup {chunk.ID} |->
        IF id = chunk.ID
        THEN [conv_id |-> chunk.ConvID, content |-> chunk.Content, position |-> chunk.Position]
        ELSE table[id]]

\* saveEmbedding(id, vector): associate or replace the embedding of the id
SaveChunkEmbedding(embTable, id, embedding) ==
    [i \in DOMAIN embTable \cup {id} |-> IF i = id THEN embedding ELSE embTable[i]]

\* hasChunks(): whether any chunk-level embedding exists
HasChunks(embTable) == DOMAIN embTable # {}

\* search at chunk granularity: the same ranking, threshold and limit, over the
\* chunk embeddings, each result with the content of its chunk
SearchChunks(chunkTable, embTable, q, limit, threshold) ==
    LET asRows == [id \in DOMAIN embTable |-> [embedding |-> Marshal(embTable[id])]]
    IN  {[i \in 1..Len(r) |-> [ID |-> r[i].ID, Distance |-> r[i].Distance,
                                Content |-> chunkTable[r[i].ID].content]] :
            r \in SearchThreshold(asRows, q, limit, threshold)}

----------------------------------------------------------------------------
(* cmd.go: the commands.  cmd is the command being run or the outcome of    *)
(* the last one; upload and reindex run their loop one chunk per step.      *)

ChunkTarget == 800   \* chunkText(string(content), 800)
Threshold == 45      \* threshold := 0.45
ChunkLimit == 10     \* store.SearchChunks(queryEmb, 10, threshold)
DocLimit == 5        \* store.Search(queryEmb, 5, threshold)

MaxClock == 1        \* time.Now() takes the values 1..MaxClock

Rep(c, n) == [i \in 1..n |-> c]

DocEmpty == <<>>
DocBlank == <<NL>>
DocShort == <<"a", ".">>
DocThree == <<"a", NL, NL>> \o Rep("b", ChunkTarget) \o <<NL, NL, "c">>
FileList == <<DocEmpty, DocBlank, DocShort, DocThree>>
Files == Range(FileList)

\* what ollama.Embed returns for a chunk or a document, and for an intent
EmbedVectors == {Near, Far}
DocVectors == {Near}
IntentVectors == {UnitX}

\* a mutant: a digest that reads the first byte only
hashContentFirstByte(content) == Head(content)

\* sha256 of the content in hex: one digest for each content and no two
\* contents with the same digest; the digest of a file is its place in FileList
hashContent(content) == CHOOSE i \in 1..Len(FileList) : FileList[i] = content

\* a mutant: chunk ids counted from 1
chunkIDOneBased(id, i) == <<id, i + 1>>

\* fmt.Sprintf("%s_%d", id, i)
chunkID(id, i) == <<id, i>>

\* store.List(): the rows by created_at, latest first; rows of one timestamp
\* come in any order
RECURSIVE ListOrders(_)
ListOrders(table) ==
    IF DOMAIN table = {} THEN {<<>>}
    ELSE LET latest == {id \in DOMAIN table :
                           \A other \in DOMAIN table :
                               table[other].created_at <= table[id].created_at}
         IN  UNION {{<<[ID |-> id, Content |-> table[id].content]>> \o rest :
                        rest \in ListOrders([x \in DOMAIN table \ {id} |-> table[x]])} :
                    id \in latest}

Positions(ids, id) == {k[2] : k \in {x \in ids : x[1] = id}}

\* the command ends with an error, or ends well; the locals of the loop are gone
Failed(c, err) == [c EXCEPT !.status = "error", !.err = err, !.pieces = <<>>, !.queue = <<>>]
Done(c) == [c EXCEPT !.status = "done", !.pieces = <<>>, !.i = 0, !.embedCalls = <<>>,
                     !.id = IF c.op = "upload" THEN @ ELSE 0,
                     !.rowsBefore = IF c.op = "upload" THEN @ ELSE {},
                     !.embBefore = IF c.op = "upload" THEN @ ELSE {}]

\* the head of a command that runs the chunk loop
Running(op, content) ==
    [op |-> op, status |-> "running", err |-> <<>>, content |-> content,
     id |-> 0, pieces |-> <<>>, i |-> 0, queue |-> <<>>,
     embedCalls |-> <<>>, rowsBefore |-> {}, embBefore |-> {}, repair |-> FALSE]

\* a mutant: the chunk loop of a document starts at its second chunk
StartDocSkipFirst(c, id, content, chunkTable, embTable) ==
    [c EXCEPT !.id = id, !.pieces = chunkText(content, ChunkTarget), !.i = 1,
              !.embedCalls = <<>>,
              !.rowsBefore = Positions(DOMAIN chunkTable, id),
              !.embBefore = Positions(DOMAIN embTable, id)]

\* `for i, chunkText := range chunks` of one document starts
StartDoc(c, id, content, chunkTable, embTable) ==
    [c EXCEPT !.id = id, !.pieces = chunkText(content, ChunkTarget), !.i = 0,
              !.embedCalls = <<>>,
              !.rowsBefore = Positions(DOMAIN chunkTable, id),
              !.embBefore = Positions(DOMAIN embTable, id)]

\* the loops move on: the next chunk, or the next conversation of reindex, or
\* the end of the command
RECURSIVE Advance(_, _, _)
Advance(c, chunkTable, embTable) ==
    IF c.i < Len(c.pieces) THEN c
    ELSE IF c.queue = <<>> THEN Done(c)
    ELSE Advance(StartDoc([c EXCEPT !.queue = Tail(@)], Head(c.queue).ID,
                          Head(c.queue).Content, chunkTable, embTable),
                 chunkTable, embTable)

Outcomes == {"ok", "save chunk", "embed chunk", "save chunk embedding"}

\* a mutant: a failed embedding takes back the chunk rows of the document
LoopBodyRollback(c, chunkTable, embTable, outcome, embedding) ==
    LET cid == chunkID(c.id, c.i)
        chunk == [ID |-> cid, ConvID |-> c.id, Content |-> c.pieces[c.i + 1], Position |-> c.i]
        saved == SaveChunk(chunkTable, chunk)
        called == [c EXCEPT !.embedCalls = Append(@, c.i)]
    IN  CASE outcome = "save chunk" ->
               [cmd |-> Failed(c, <<outcome, c.i>>), chunks |-> chunkTable, chunkEmb |-> embTable]
          [] outcome = "embed chunk" ->
               [cmd |-> Failed(called, <<outcome, c.i>>),
                chunks |-> [x \in {y \in DOMAIN chunkTable : y[1] # c.id} |-> chunkTable[x]],
                chunkEmb |-> embTable]
          [] outcome = "save chunk embedding" ->
               [cmd |-> Failed(called, <<outcome, c.i>>), chunks |-> saved, chunkEmb |-> embTable]
          [] OTHER ->
               LET embs == SaveChunkEmbedding(embTable, cid, embedding)
               IN  [cmd |-> Advance([called EXCEPT !.i = @ + 1], saved, embs),
                    chunks |-> saved, chunkEmb |-> embs]

\* one turn of the chunk loop of uploadCmd and of reindexCmd: SaveChunk, Embed,
\* SaveChunkEmbedding, each of which may fail and end the command
LoopBody(c, chunkTable, embTable, outcome, embedding) ==
    LET cid == chunkID(c.id, c.i)
        chunk == [ID |-> cid, ConvID |-> c.id, Content |-> c.pieces[c.i + 1], Position |-> c.i]
        saved == SaveChunk(chunkTable, chunk)
        called == [c EXCEPT !.embedCalls = Append(@, c.i)]
    IN  CASE outcome = "save chunk" ->
               [cmd |-> Failed(c, <<outcome, c.i>>), chunks |-> chunkTable, chunkEmb |-> embTable]
          [] outcome = "embed chunk" ->
               [cmd |-> Failed(called, <<outcome, c.i>>), chunks |-> saved, chunkEmb |-> embTable]
          [] outcome = "save chunk embedding" ->
               [cmd |-> Failed(called, <<outcome, c.i>>), chunks |-> saved, chunkEmb |-> embTable]
          [] OTHER ->
               LET embs == SaveChunkEmbedding(embTable, cid, embedding)
               IN  [cmd |-> Advance([called EXCEPT !.i = @ + 1], saved, embs),
                    chunks |-> saved, chunkEmb |-> embs]

\* a mutant: the empty file is not rejected
uploadCmdNoEmptyCheck(table, chunkTable, embTable, content, now, ioFails) ==
    LET id == hashContent(content)
        r == Save(table, [ID |-> id, Content |-> content, CreatedAt |-> now])
    IN  IF ioFails \/ r.err
        THEN [cmd |-> Failed(Running("upload", content),
                             IF ioFails THEN <<"io">> ELSE <<"insert conversation">>),
              conversations |-> table]
        ELSE [cmd |-> Advance(StartDoc(Running("upload", content), id, content,
                                       chunkTable, embTable), chunkTable, embTable),
              conversations |-> r.table]

\* uploadCmd up to its chunk loop: the file read, the empty file rejected, the
\* store opened, the conversation saved under the hash of its content, the
\* content chunked.  ioFails: opening the store or writing to it fails.
uploadCmd(table, chunkTable, embTable, content, now, ioFails) ==
    IF Len(content) = 0
    THEN [cmd |-> Failed(Running("upload", content), <<"file is empty">>),
          conversations |-> table]
    ELSE LET id == hashContent(content)
             r == Save(table, [ID |-> id, Content |-> content, CreatedAt |-> now])
         IN  IF ioFails \/ r.err
             THEN [cmd |-> Failed(Running("upload", content),
                                  IF ioFails THEN <<"io">> ELSE <<"insert conversation">>),
                   conversations |-> table]
             ELSE [cmd |-> Advance(StartDoc(Running("upload", content), id, content,
                                            chunkTable, embTable), chunkTable, embTable),
                   conversations |-> r.table]

\* reindexCmd up to its loops: the store opened, the conversations listed.
\* repair notes that a chunk row had no embedding when the command began.
reindexCmd(convs, chunkTable, embTable, ioFails) ==
    LET head == [Running("reindex", <<>>) EXCEPT
                    !.repair = DOMAIN chunkTable # DOMAIN embTable]
    IN  IF ioFails THEN Failed(head, <<"io">>)
        ELSE IF convs = <<>> THEN Done(head)
        ELSE Advance([head EXCEPT !.queue = convs], chunkTable, embTable)

\* the outcome of prime: what was searched and what was returned
PrimeOutcome(status, err, outcome, granularity, limit, q, rows, contexts) ==
    [op |-> "prime", status |-> status, err |-> err, outcome |-> outcome,
     granularity |-> granularity, limit |-> limit, query |-> q, rows |-> rows,
     contexts |-> contexts]

\* from `if len(contexts) == 0` on: no relevant context, or the synthesis
Synthesized(granularity, limit, q, rows, contexts, fails) ==
    IF contexts = <<>>
    THEN PrimeOutcome("done", <<>>, "no relevant context", granularity, limit, q, rows, contexts)
    ELSE IF fails = "generate"
    THEN PrimeOutcome("error", <<"synthesize">>, "", granularity, limit, q, rows, contexts)
    ELSE PrimeOutcome("done", <<>>, "context", granularity, limit, q, rows, contexts)

\* `if store.HasChunks() { ... }`: the chunk search, each result's content a
\* passage
PrimeChunks(chunkTable, embTable, q, fails) ==
    IF fails = "search"
    THEN {PrimeOutcome("error", <<"search chunks">>, "", "chunk", ChunkLimit, q, <<>>, <<>>)}
    ELSE {Synthesized("chunk", ChunkLimit, q, rows, [i \in 1..Len(rows) |-> rows[i].Content],
                      fails) :
            rows \in SearchChunks(chunkTable, embTable, q, ChunkLimit, Threshold)}

\* `else { ... }`: the whole-document search; a result whose row Get does not
\* find is skipped
PrimeDocs(table, q, fails) ==
    IF fails = "search"
    THEN {PrimeOutcome("error", <<"search">>, "", "document", DocLimit, q, <<>>, <<>>)}
    ELSE {LET found == SelectSeq(rows, LAMBDA r : ~Get(table, r.ID).err)
          IN  Synthesized("document", DocLimit, q, found,
                          [i \in 1..Len(found) |-> Get(table, found[i].ID).Content], fails) :
            rows \in SearchThreshold(table, q, DocLimit, Threshold)}

\* a mutant: the test of HasChunks turned round
primeCmdInverted(table, chunkTable, embTable, q, fails) ==
    IF fails = "embed"
    THEN {PrimeOutcome("error", <<"embed query">>, "", "", 0, <<>>, <<>>, <<>>)}
    ELSE IF ~HasChunks(embTable) THEN PrimeChunks(chunkTable, embTable, q, fails)
    ELSE PrimeDocs(table, q, fails)

\* primeCmd: the outcomes it may have; q is the embedding of the intent and
\* fails the call that fails, if any
primeCmd(table, chunkTable, embTable, q, fails) ==
    IF fails = "embed"
    THEN {PrimeOutcome("error", <<"embed query">>, "", "", 0, <<>>, <<>>, <<>>)}
    ELSE IF HasChunks(embTable) THEN PrimeChunks(chunkTable, embTable, q, fails)
    ELSE PrimeDocs(table, q, fails)

----------------------------------------------------------------------------
(* The commands as actions.  One command runs at a time.                    *)

Init ==
    /\ conversations = NoTable
    /\ chunks = NoTable
    /\ chunkEmb = NoTable
    /\ cmd = Idle
    /\ text = <<>> /\ targetSize = 1 /\ out = "none"
    /\ query = <<>> /\ results = NoResults

Free == cmd = Idle

Upload ==
    /\ Free
    /\ \E content \in Files, ioFails \in BOOLEAN, now \in 1..MaxClock :
          LET r == uploadCmd(conversations, chunks, chunkEmb, content, now, ioFails)
          IN  /\ cmd' = r.cmd
              /\ conversations' = r.conversations
    /\ UNCHANGED <<chunks, chunkEmb, chunkVars, searchVars>>

UploadChunk ==
    /\ cmd.op = "upload" /\ cmd.status = "running"
    /\ \E outcome \in Outcomes, embedding \in EmbedVectors :
          LET r == LoopBody(cmd, chunks, chunkEmb, outcome, embedding)
          IN  /\ cmd' = r.cmd
              /\ chunks' = r.chunks
              /\ chunkEmb' = r.chunkEmb
    /\ UNCHANGED <<conversations, chunkVars, searchVars>>

Reindex ==
    /\ Free
    /\ \E ioFails \in BOOLEAN, convs \in ListOrders(conversations) :
          cmd' = reindexCmd(convs, chunks, chunkEmb, ioFails)
    /\ UNCHANGED <<storeVars, chunkVars, searchVars>>

ReindexChunk ==
    /\ cmd.op = "reindex" /\ cmd.status = "running"
    /\ \E outcome \in Outcomes, embedding \in EmbedVectors :
          LET r == LoopBody(cmd, chunks, chunkEmb, outcome, embedding)
          IN  /\ cmd' = r.cmd
              /\ chunks' = r.chunks
              /\ chunkEmb' = r.chunkEmb
    /\ UNCHANGED <<conversations, chunkVars, searchVars>>

Prime ==
    /\ Free
    /\ \E q \in IntentVectors, fails \in {"none", "embed", "search", "generate"} :
          cmd' \in primeCmd(conversations, chunks, chunkEmb, q, fails)
    /\ UNCHANGED <<storeVars, chunkVars, searchVars>>

\* Store.SaveEmbedding on a conversation: the whole-document embedding that
\* the fallback search of prime reads
EmbedConversation ==
    /\ Free
    /\ \E id \in DOMAIN conversations, embedding \in DocVectors :
          conversations' = SaveEmbedding(conversations, id, embedding)
    /\ cmd' = Idle
    /\ UNCHANGED <<chunks, chunkEmb, chunkVars, searchVars>>

\* the process of the command ends; the next command is a new process
Exit ==
    /\ cmd # Idle /\ cmd.status # "running"
    /\ cmd' = Idle
    /\ UNCHANGED <<storeVars, chunkVars, searchVars>>

Next ==
    \/ Upload
    \/ UploadChunk
    \/ Reindex
    \/ ReindexChunk
    \/ Prime
    \/ EmbedConversation
    \/ Exit

Spec == Init /\ [][Next]_vars

----------------------------------------------------------------------------
(* Claims about the commands (Spec)                                         *)

\* chunkText(content, 800) of the files of the model
FilePieces == [c \in Files |-> chunkText(c, ChunkTarget)]

\* the chunk rows a document should have: chunk i under the id "<id>_<i>",
\* at position i, with the i-th chunk of its content
ExpectedRows(id, content) ==
    LET p == FilePieces[content]
    IN  [cid \in {<<id, i>> : i \in 0..(Len(p) - 1)} |->
            [conv_id |-> id, content |-> p[cid[2] + 1], position |-> cid[2]]]

\* the chunk rows that belong to a document
RowsOf(id) == [cid \in {x \in DOMAIN chunks : chunks[x].conv_id = id} |-> chunks[cid]]

LoopErrors == {"save chunk", "embed chunk", "save chunk embedding"}

\* C4: an upload of non-empty content fails only when the store or the
\* embedding provider fails, never on an id that is already stored; when it
\* is done the store holds one row for the content, under the hash of the
\* content, and the chunk rows of that document are exactly the chunks of the
\* content, the first time and every later time; contents that differ have
\* ids that differ.
C4_Idempotent ==
    /\ \A a, b \in Files \ {<<>>} : a # b => hashContent(a) # hashContent(b)
    /\ \A id \in DOMAIN conversations : id = hashContent(conversations[id].content)
    /\ (cmd.op = "upload" /\ cmd.content # <<>>) =>
          /\ cmd.status = "error" => cmd.err[1] \in LoopErrors \cup {"io"}
          /\ cmd.status = "done" =>
                /\ cmd.id = hashContent(cmd.content)
                /\ cmd.id \in DOMAIN conversations
                /\ conversations[cmd.id].content = cmd.content
                /\ \A other \in DOMAIN conversations \ {cmd.id} :
                      conversations[other].content # cmd.content
                /\ RowsOf(cmd.id) = ExpectedRows(cmd.id, cmd.content)

\* the second upload of a three-chunk file is done, next to another document
C4_Witness ==
    /\ cmd.op = "upload" /\ cmd.status = "done"
    /\ cmd.content = DocThree
    /\ cmd.rowsBefore = {0, 1, 2}
    /\ cmd.embBefore = {0, 1, 2}
    /\ hashContent(DocShort) \in DOMAIN conversations

\* C5: once prime has the embedding of the intent and the search has not
\* failed: with a chunk embedding in the store it searches the chunks with
\* limit 10 and every passage is the content of the chunk row of its result,
\* a conversation row never being a result; with none it searches the conversations with
\* limit 5 and every passage is the content of a conversation; with no
\* conversation stored the outcome is "no relevant context", not an error.
C5_Granularity ==
    (cmd.op = "prime" /\ cmd.err \notin {<<"embed query">>, <<"search">>, <<"search chunks">>}) =>
        /\ Len(cmd.contexts) = Len(cmd.rows)
        /\ HasChunks(chunkEmb) =>
              /\ cmd.granularity = "chunk" /\ cmd.limit = 10
              /\ Len(cmd.contexts) <= 10
              /\ \A i \in 1..Len(cmd.rows) :
                    /\ cmd.rows[i].ID \in DOMAIN chunkEmb
                    /\ cmd.rows[i].ID \in DOMAIN chunks
                    /\ cmd.contexts[i] = chunks[cmd.rows[i].ID].content
        /\ ~HasChunks(chunkEmb) =>
              /\ cmd.granularity = "document" /\ cmd.limit = 5
              /\ Len(cmd.contexts) <= 5
              /\ \A i \in 1..Len(cmd.rows) :
                    /\ cmd.rows[i].ID \in DOMAIN conversations
                    /\ cmd.contexts[i] = conversations[cmd.rows[i].ID].content
        /\ DOMAIN conversations = {} =>
              cmd.status = "done" /\ cmd.outcome = "no relevant context"
        /\ cmd.contexts = <<>> =>
              cmd.status = "done" /\ cmd.outcome = "no relevant context"

\* prime returns chunks while a conversation with an embedding of its own,
\* near the query, is stored
C5_Witness ==
    /\ cmd.op = "prime" /\ cmd.status = "done" /\ cmd.outcome = "context"
    /\ cmd.granularity = "chunk"
    /\ Len(cmd.contexts) >= 2
    /\ \E id \in Embedded(conversations) :
          cosineDistance(cmd.query, Unmarshal(conversations[id].embedding)) <= Threshold

\* C6: an upload of an empty file ends with the error "file is empty" and
\* leaves the conversations, the chunk rows and the embeddings as they were.
C6_EmptyRejected ==
    [][(cmd'.op = "upload" /\ cmd'.content = <<>>) =>
          /\ cmd'.status = "error"
          /\ cmd'.err = <<"file is empty">>
          /\ UNCHANGED storeVars]_vars

\* an empty upload rejected on a store that holds rows
C6_Witness ==
    /\ cmd.op = "upload" /\ cmd.content = <<>> /\ cmd.status = "error"
    /\ DOMAIN conversations # {}
    /\ DOMAIN chunks # {}
    /\ DOMAIN chunkEmb # {}

UpTo(n) == [j \in 1..n |-> j - 1]
EmbedFailedAt == cmd.op = "upload" /\ cmd.status = "error" /\ cmd.err[1] = "embed chunk"

\* C7 as claimed: after the embedding of chunk k fails, the conversation and
\* the chunk rows and embeddings below k are stored, no chunk row or embedding
\* above k exists, and no embedding of chunk k exists.
C7_Original ==
    EmbedFailedAt =>
        LET k == cmd.err[2]
        IN  /\ cmd.id \in DOMAIN conversations
            /\ \A j \in 0..(k - 1) : <<cmd.id, j>> \in DOMAIN chunks \cap DOMAIN chunkEmb
            /\ Positions(DOMAIN chunks, cmd.id) \subseteq 0..k
            /\ Positions(DOMAIN chunkEmb, cmd.id) \subseteq 0..(k - 1)

\* C7 amended: upload asks for the embeddings one chunk at a time, in
\* increasing position, each once; after the embedding of chunk k fails the
\* command has ended with that error, the conversation and the chunk rows 0..k
\* are stored with the chunks of the content, the embeddings of 0..k-1 are
\* stored, and a chunk row above k or an embedding of k or above exists only
\* if it did before the upload began.
C7_PartialUpload ==
    /\ cmd.op = "upload" =>
          /\ cmd.embedCalls = UpTo(Len(cmd.embedCalls))
          /\ cmd.status = "running" => Len(cmd.embedCalls) = cmd.i
    /\ EmbedFailedAt =>
          LET k == cmd.err[2]
              p == FilePieces[cmd.content]
          IN  /\ cmd.embedCalls = UpTo(k + 1)
              /\ cmd.id \in DOMAIN conversations
              /\ conversations[cmd.id].content = cmd.content
              /\ \A j \in 0..k :
                    /\ <<cmd.id, j>> \in DOMAIN chunks
                    /\ chunks[<<cmd.id, j>>] =
                          [conv_id |-> cmd.id, content |-> p[j + 1], position |-> j]
              /\ Positions(DOMAIN chunks, cmd.id) = cmd.rowsBefore \cup 0..k
              /\ Positions(DOMAIN chunkEmb, cmd.id) = cmd.embBefore \cup 0..(k - 1)

\* the first upload of the three-chunk file stopped at its second chunk
C7_Witness ==
    /\ EmbedFailedAt
    /\ cmd.err[2] = 1
    /\ cmd.content = DocThree
    /\ cmd.rowsBefore = {}
    /\ Positions(DOMAIN chunks, cmd.id) = {0, 1}
    /\ Positions(DOMAIN chunkEmb, cmd.id) = {0}

\* every conversation has exactly the chunk rows of its content, each with an
\* embedding, and every chunk row belongs to a conversation
AllExact ==
    /\ \A id \in DOMAIN conversations :
          /\ RowsOf(id) = ExpectedRows(id, conversations[id].content)
          /\ DOMAIN ExpectedRows(id, conversations[id].content) \subseteq DOMAIN chunkEmb
    /\ \A cid \in DOMAIN chunks : chunks[cid].conv_id \in DOMAIN conversations

\* C10: when reindex is done, every conversation has exactly the chunk rows
\* of chunkText(content, 800), chunk i under the id "<id>_<i>" at position i,
\* each with an embedding, and no chunk row besides; and a reindex of a store
\* that is already so leaves the chunk rows as they are.
C10_ReindexExact ==
    /\ []((cmd.op = "reindex" /\ cmd.status = "done") => AllExact)
    /\ [][(cmd.op = "reindex" /\ AllExact) => chunks' = chunks]_vars

\* reindex is done on a store that a failed upload had left with a part of the
\* chunks of a document, and that holds two documents with chunks
C10_Witness ==
    /\ cmd.op = "reindex" /\ cmd.status = "done" /\ cmd.repair
    /\ hashContent(DocThree) \in DOMAIN conversations
    /\ hashContent(DocShort) \in DOMAIN conversations
    /\ hashContent(DocBlank) \in DOMAIN conversations


\* the positions of the chunk rows of a document, by the conv_id of the rows
PositionsOf(id) == {chunks[cid].position : cid \in DOMAIN RowsOf(id)}

\* C11: in every state, between commands, in the middle of a chunk loop and
\* after a command that was aborted: the positions of the chunk rows of each
\* document are 0..n-1 for some n, no two rows of a document have one
\* position, the id of a chunk row is "<conv_id>_<position>", and the conv_id
\* of a chunk row is the id of a stored conversation.
C11_Contiguous ==
    /\ \A cid \in DOMAIN chunks :
          /\ cid[1] = chunks[cid].conv_id
          /\ cid[2] = chunks[cid].position
          /\ chunks[cid].conv_id \in DOMAIN conversations
    /\ \A a, b \in DOMAIN chunks :
          (chunks[a].conv_id = chunks[b].conv_id /\ chunks[a].position = chunks[b].position)
              => a = b
    /\ \A id \in DOMAIN conversations :
          PositionsOf(id) = 0..(Cardinality(PositionsOf(id)) - 1)

\* an upload of the three-chunk file was aborted by the embedding of its
\* second chunk, on a store that did not have its chunks: two of its three
\* chunk rows are there, next to the rows of another document
C11_Witness ==
    /\ cmd.op = "upload" /\ cmd.status = "error"
    /\ cmd.err = <<"embed chunk", 1>>
    /\ cmd.content = DocThree
    /\ cmd.rowsBefore = {}
    /\ PositionsOf(cmd.id) = {0, 1}
    /\ PositionsOf(hashContent(DocShort)) = {0}


----------------------------------------------------------------------------
(* Save and SaveEmbedding called one after the other with any arguments;    *)
(* cmd holds the last call, its arguments and the table it was made on.     *)

Contents == {<<"a">>, <<"b">>}
Stamps == {1, 2}

Called(op, id, before) == [op |-> op, status |-> "done", id |-> id, before |-> before]

SaveInit ==
    /\ conversations = NoTable
    /\ cmd = Idle
    /\ chunks = NoTable /\ chunkEmb = NoTable
    /\ text = <<>> /\ targetSize = 1 /\ out = "none"
    /\ query = <<>> /\ results = NoResults

SaveCall ==
    /\ \E id \in RowIds, content \in Contents, now \in Stamps :
          LET c == [ID |-> id, Content |-> content, CreatedAt |-> now]
              r == Save(conversations, c)
          IN  /\ ~r.err
              /\ conversations' = r.table
              /\ cmd' = Called("Save", id, conversations) @@ [c |-> c]
    /\ UNCHANGED <<chunks, chunkEmb, chunkVars, searchVars>>

SaveEmbeddingCall ==
    /\ \E id \in RowIds, embedding \in DocVectors :
          /\ conversations' = SaveEmbedding(conversations, id, embedding)
          /\ cmd' = Called("SaveEmbedding", id, conversations)
    /\ UNCHANGED <<chunks, chunkEmb, chunkVars, searchVars>>

SaveNext ==
    \/ SaveCall
    \/ SaveEmbeddingCall

SaveSpec == SaveInit /\ [][SaveNext]_vars

\* the ids that some Search for UnitX with room for every row returns
Findable(table) ==
    {id \in DOMAIN table :
        \E r \in Search(table, UnitX, MaxRows) : \E i \in 1..Len(r) : r[i].ID = id}

\* C12: Save of an id that is stored writes the content and the timestamp of
\* its argument, leaves every other row as it was and leaves the embedding of
\* the id as it was, so that a row that Search found before the Save is found
\* after it; SaveEmbedding of an id that is not stored leaves the table as it
\* was.
C12_SaveKeepsEmbedding ==
    /\ (cmd.op = "Save" /\ cmd.id \in DOMAIN cmd.before) =>
          /\ DOMAIN conversations = DOMAIN cmd.before
          /\ conversations[cmd.id].content = cmd.c.Content
          /\ conversations[cmd.id].created_at = cmd.c.CreatedAt
          /\ \A other \in DOMAIN conversations \ {cmd.id} :
                conversations[other] = cmd.before[other]
          /\ cmd.id \in Embedded(cmd.before) <=> cmd.id \in Embedded(conversations)
          /\ cmd.id \in Embedded(cmd.before) =>
                /\ Unmarshal(conversations[cmd.id].embedding)
                      = Unmarshal(cmd.before[cmd.id].embedding)
                /\ cmd.id \in Findable(conversations)
    /\ (cmd.op = "SaveEmbedding" /\ cmd.id \notin DOMAIN cmd.before) =>
          conversations = cmd.before

\* Save; SaveEmbedding; Save of one id, next to another row with an embedding
C12_Witness ==
    /\ cmd.op = "Save"
    /\ cmd.id \in Embedded(cmd.before)
    /\ cmd.c.Content # cmd.before[cmd.id].content
    /\ cmd.c.CreatedAt # cmd.before[cmd.id].created_at
    /\ Embedded(cmd.before) \ {cmd.id} # {}

====
